---- MODULE Spec2Model ----
(***************************************************************************)
(* fincore (rhel8-fincore.c): for every file named on the command line,    *)
(* count the pages of the file that are resident in the page cache, by     *)
(* mapping the file window by window and calling mincore on each window.   *)
(*                                                                         *)
(* The model follows main -> fincore_name -> fincore_fd -> do_mincore      *)
(* statement by statement.  Sizes are scaled down so that the state space  *)
(* is finite: the window capacity is 2^k pages with k <= MaxWindowShift    *)
(* (the code: 2^15), the page size is 2^k bytes with k <= MaxPageShift     *)
(* (the platforms: up to 2^16), an int has IntBits bits and size_t/off_t   *)
(* have LongBits bits.  IntBits keeps the code's ratio: the largest        *)
(* capacity times the largest page size is exactly 2^(IntBits-1), as       *)
(* 2^15 * 2^16 = 2^31 is for the 32-bit int of the code.                    *)
(***************************************************************************)
EXTENDS Integers, Naturals, Sequences, FiniteSets, TLC

(* ------------------------------ bounds --------------------------------- *)
MaxFiles == 2
MaxPages == 3
MaxWindowShift == 1
MaxPageShift == 3

(* ------------------------- integer arithmetic -------------------------- *)
RECURSIVE Pow2(_)
Pow2(k) == IF k = 0 THEN 1 ELSE 2 * Pow2(k - 1)

IntBits == MaxWindowShift + MaxPageShift + 1
LongBits == 2 * IntBits

\* the value an int holds after a wrapping two's complement operation
IntWrap(x) == ((x + Pow2(IntBits - 1)) % Pow2(IntBits)) - Pow2(IntBits - 1)
\* conversion to size_t (unsigned long)
ToSizeT(x) == x % Pow2(LongBits)
\* conversion to off_t (long)
ToOffT(x) == ((x + Pow2(LongBits - 1)) % Pow2(LongBits)) - Pow2(LongBits - 1)

INT_MAX == Pow2(IntBits - 1) - 1

EXIT_SUCCESS == 0
EXIT_FAILURE == 1
EINVAL == 22
ENOMEM == 12
EIO == 5
EAGAIN == 11

(* --------------------------- the environment --------------------------- *)
\* page sizes getpagesize() can report
PageSizes == {Pow2(k) : k \in 2..MaxPageShift}
\* window capacities, in pages (N_PAGES_IN_WINDOW)
WindowCapacities == {Pow2(k) : k \in 0..MaxWindowShift}

CeilDiv(a, b) == (a \div b) + (IF a % b # 0 THEN 1 ELSE 0)

\* sizes fstat can report: whole pages, one byte more, one byte less
FileSizes(ps) == {s \in 0..(MaxPages * ps) : s % ps \in {0, 1, ps - 1}}
\* the page indexes of a file of s bytes
PagesOf(s, ps) == 0..(CeilDiv(s, ps) - 1)

FstatErrnos == {EIO, ENOMEM}
MincoreErrnos == {EAGAIN, ENOMEM}

(* ------------------------------- state --------------------------------- *)
VARIABLES
    pagesize,       \* main: pagesize = getpagesize()
    npages,         \* N_PAGES_IN_WINDOW, the entries of vec
    argc,           \* number of file arguments
    optind,         \* main: index of the file being processed (1-based)
    pc,             \* position of the single thread of control
    main_rc,        \* main: rc
    st_size,        \* main: sb.st_size
    sb_set,         \* whether fstat has filled sb in this iteration
    count_incore,   \* main: count_incore
    name_rc,        \* fincore_name: rc
    fds,            \* files whose descriptor is open
    window_size,    \* fincore_fd: window_size
    file_offset,    \* fincore_fd: file_offset
    len,            \* fincore_fd: len
    rc,             \* fincore_fd: rc
    warned_once,    \* fincore_fd: warned_once
    vec,            \* do_mincore: static vec[N_PAGES_IN_WINDOW]
    mapped,         \* the window mappings that exist in the address space
    cache,          \* page cache: resident page indexes of the current file
    stable,         \* the cache did not change since fstat of the current file
    wins,           \* history: windows mapped by the current fincore_fd call
    warns,          \* history: "failed to do mmap" warnings for the current file
    calls,          \* history: mmap and mincore calls made for the current file
    outcome,        \* history: what happened to each file
    out,            \* stdout: the report line of the iteration that just ended
    nlines          \* stdout: the number of report lines written

vars == <<pagesize, npages, argc, optind, pc, main_rc, st_size, sb_set,
          count_incore, name_rc, fds, window_size, file_offset, len, rc,
          warned_once, vec, mapped, cache, stable, wins, warns, calls,
          outcome, out, nlines>>

mainVars == <<pagesize, npages, argc>>
fdLocals == <<window_size, file_offset, len, rc, warned_once>>

ZeroVec(n) == [i \in 0..(n - 1) |-> 0]

\* no line was written since the current iteration began
NoLine == [kind |-> "none", c1 |-> 0, c2 |-> 0, name |-> 0]

Init ==
    /\ pagesize \in PageSizes
    /\ npages \in WindowCapacities
    /\ argc \in 1..MaxFiles
    /\ optind = 1
    /\ pc = "main"
    /\ main_rc = EXIT_SUCCESS
    /\ st_size = 0
    /\ sb_set = FALSE
    /\ count_incore = 0
    /\ name_rc = 0
    /\ fds = {}
    /\ window_size = 0
    /\ file_offset = 0
    /\ len = 0
    /\ rc = 0
    /\ warned_once = 0
    /\ vec = ZeroVec(npages)
    /\ mapped = {}
    /\ cache = {}
    /\ stable = TRUE
    /\ wins = <<>>
    /\ warns = 0
    /\ calls = 0
    /\ outcome = [i \in 1..argc |-> "none"]
    /\ out = NoLine
    /\ nlines = 0

(* ------------------------------- main ---------------------------------- *)
\* main, the head of the for loop: the next file, or return rc
MainLoop ==
    /\ pc = "main"
    /\ IF optind <= argc
       THEN /\ pc' = "open"
            /\ count_incore' = 0
            /\ sb_set' = FALSE
            /\ out' = NoLine
       ELSE /\ pc' = "exit"
            /\ UNCHANGED <<count_incore, sb_set, out>>
    /\ UNCHANGED <<mainVars, optind, main_rc, st_size, name_rc, fds, fdLocals,
                   vec, mapped, cache, stable, wins, warns, calls, outcome,
                   nlines>>

\* the value read from sb.st_size: what fstat stored, or, when fstat never
\* ran in this iteration, an indeterminate value
SbRead == IF sb_set THEN {st_size} ELSE 0..1

\* report_count
CountLine(name, file_size, count) ==
    [kind |-> "count", c1 |-> count, c2 |-> file_size, name |-> name]
\* report_failure
FailureLine(name) ==
    [kind |-> "failed", c1 |-> -1, c2 |-> -1, name |-> name]

\* main: the status after a file whose fincore_name returned r
MainRc(r, old) == IF r = 0 THEN old ELSE EXIT_FAILURE

\* main, the body of the for loop after fincore_name returned, and optind++
Report ==
    /\ pc = "report"
    /\ IF name_rc = 0
       THEN \E sz \in SbRead : out' = CountLine(optind, sz, count_incore)
       ELSE out' = FailureLine(optind)
    /\ nlines' = nlines + 1
    /\ main_rc' = MainRc(name_rc, main_rc)
    /\ optind' = optind + 1
    /\ pc' = "main"
    \* the locals of the iteration and of the calls it made are dead
    /\ st_size' = 0
    /\ sb_set' = FALSE
    /\ count_incore' = 0
    /\ name_rc' = 0
    /\ window_size' = 0
    /\ file_offset' = 0
    /\ len' = 0
    /\ rc' = 0
    /\ warned_once' = 0
    /\ cache' = {}
    /\ stable' = TRUE
    /\ wins' = <<>>
    /\ warns' = 0
    /\ calls' = 0
    /\ UNCHANGED <<mainVars, fds, vec, mapped, outcome>>

(* ---------------------------- fincore_name ----------------------------- *)
\* fincore_name whose rc starts as an error
FincoreNameRcInit_error == -EINVAL
\* int rc = 0
FincoreNameRcInit == 0
\* the value fincore_name returns when open fails
OpenFailRc == 0
\* the value fincore_name returns when fstat fails with errno e
FstatFailRc(e) == -e

\* fincore_name: int rc = 0; open(name, O_RDONLY)
Open ==
    /\ pc = "open"
    /\ \/ /\ fds' = fds \cup {optind}
          /\ name_rc' = FincoreNameRcInit
          /\ pc' = "fstat"
          /\ UNCHANGED outcome
       \/ /\ name_rc' = OpenFailRc
          /\ pc' = "report"
          /\ outcome' = [outcome EXCEPT ![optind] = "open_failed"]
          /\ UNCHANGED fds
    /\ UNCHANGED <<mainVars, optind, main_rc, st_size, sb_set, count_incore,
                   fdLocals, vec, mapped, cache, stable, wins, warns, calls,
                   out, nlines>>

\* fincore_fd: size_t window_size = N_PAGES_IN_WINDOW * pagesize, an int
\* product.  When the product does not fit an int the behaviour is undefined:
\* a build either keeps the wrapped int (sign-extended to size_t) or computes
\* the product in a wider register.
WindowSizes(n, ps) ==
    IF n * ps <= INT_MAX
    THEN {ToSizeT(n * ps)}
    ELSE {ToSizeT(IntWrap(n * ps)), ToSizeT(n * ps)}

\* fincore_fd: int rc = 0
FdRcInit == 0

\* fincore_name: if (sb->st_size) rc = fincore_fd(...)
ScanNeeded(size) == size # 0

\* fincore_name: fstat(fd, sb), then the call of fincore_fd up to its for loop
Fstat ==
    /\ pc = "fstat"
    /\ \/ \E e \in FstatErrnos :
            /\ name_rc' = FstatFailRc(e)
            /\ pc' = "report"
            /\ outcome' = [outcome EXCEPT ![optind] = "fstat_failed"]
            /\ UNCHANGED <<st_size, sb_set, cache, fdLocals>>
       \/ \E sz \in FileSizes(pagesize) :
            /\ st_size' = sz
            /\ sb_set' = TRUE
            /\ cache' \in SUBSET PagesOf(sz, pagesize)
            /\ IF ScanNeeded(sz)
               THEN /\ window_size' \in WindowSizes(npages, pagesize)
                    /\ file_offset' = 0
                    /\ rc' = FdRcInit
                    /\ warned_once' = 0
                    /\ pc' = "for"
                    /\ UNCHANGED <<len, outcome>>
               ELSE /\ pc' = "close"
                    /\ outcome' = [outcome EXCEPT ![optind] = "empty"]
                    /\ UNCHANGED fdLocals
            /\ UNCHANGED name_rc
    /\ UNCHANGED <<mainVars, optind, main_rc, count_incore, fds, vec, mapped,
                   stable, wins, warns, calls, out, nlines>>

\* fincore_name: close(fd); return rc
Close ==
    /\ pc = "close"
    /\ fds' = fds \ {optind}
    /\ pc' = "report"
    /\ UNCHANGED <<mainVars, optind, main_rc, st_size, sb_set, count_incore,
                   name_rc, fdLocals, vec, mapped, cache, stable, wins, warns,
                   calls, outcome, out, nlines>>

(* ----------------------------- fincore_fd ------------------------------ *)
\* the condition of the for loop
LoopCond(offset, file_size) == offset < file_size

\* the window length without the clamp to window_size
WindowLen_noclamp(file_size, offset, wsize) == ToSizeT(file_size - offset)
\* len = file_size - file_offset; if (len >= window_size) len = window_size
WindowLen(file_size, offset, wsize) ==
    IF ToSizeT(file_size - offset) >= wsize
    THEN wsize
    ELSE ToSizeT(file_size - offset)

\* an advance by one page instead of one window
NextOffset_page(offset, wsize) == ToOffT(ToSizeT(offset) + pagesize)
\* file_offset += window_size
NextOffset(offset, wsize) == ToOffT(ToSizeT(offset) + wsize)

\* mmap(window, len, PROT_NONE, MAP_PRIVATE, fd, file_offset) can succeed
\* only for a non-empty range at a page-aligned offset off_t can address
MmapCanSucceed(l, offset) == l > 0 /\ offset >= 0 /\ offset % pagesize = 0

\* a failed mmap that leaves rc as it was initialised
MmapFailRc_unset == FdRcInit
\* rc after a failed mmap
MmapFailRc == -EINVAL

\* the mapping the current iteration works on
Window == [file |-> optind, off |-> file_offset]

\* fincore_fd returns r to fincore_name, which stores it in rc
FdReturn(r) ==
    /\ name_rc' = r
    /\ pc' = "close"

\* fincore_fd: the loop test, the computation of len, and mmap
For ==
    /\ pc = "for"
    /\ IF LoopCond(file_offset, st_size)
       THEN LET l == WindowLen(st_size, file_offset, window_size) IN
            /\ len' = l
            /\ calls' = calls + 1
            /\ \/ /\ MmapCanSucceed(l, file_offset)
                  /\ mapped' = mapped \cup {Window}
                  /\ pc' = "mincore"
                  /\ UNCHANGED <<rc, warned_once, warns, name_rc, outcome>>
               \/ /\ IF warned_once = 0
                     THEN /\ rc' = MmapFailRc
                          /\ warns' = warns + 1
                          /\ warned_once' = 1
                          /\ FdReturn(MmapFailRc)
                     ELSE /\ UNCHANGED <<rc, warns, warned_once>>
                          /\ FdReturn(rc)
                  /\ outcome' = [outcome EXCEPT ![optind] = "mmap_failed"]
                  /\ UNCHANGED mapped
       ELSE /\ FdReturn(rc)
            /\ outcome' = [outcome EXCEPT ![optind] = "ok"]
            /\ UNCHANGED <<len, rc, warned_once, warns, mapped, calls>>
    /\ UNCHANGED <<mainVars, optind, main_rc, st_size, sb_set, count_incore,
                   fds, window_size, file_offset, vec, cache, stable, wins, out,
                   nlines>>

(* ----------------------------- do_mincore ------------------------------ *)
\* a page count that drops the partial last page
PagesIn_floor(l, ps) == IntWrap(l \div ps)
\* int n = (len / pagesize) + ((len % pagesize)? 1: 0)
PagesIn(l, ps) == IntWrap((l \div ps) + (IF l % ps # 0 THEN 1 ELSE 0))

\* mincore(window, len, vec) stores one flag per page of the range
MincoreVec(v, l, first, resident) ==
    [i \in DOMAIN v |->
        IF i < CeilDiv(l, pagesize)
        THEN (IF (first + i) \in resident THEN 1 ELSE 0)
        ELSE v[i]]

\* while (n > 0) if (vec[--n] & 0x1) { vec[n] = 0; (*count_incore)++; }
CountLoop(v, n) ==
    [delta |-> Cardinality({i \in DOMAIN v : i < n /\ v[i] = 1}),
     vec   |-> [i \in DOMAIN v |-> IF i < n THEN 0 ELSE v[i]]]

\* the results of a successful query.  When the range has more pages than
\* vec has entries, mincore writes and the loop reads past the end of vec:
\* the behaviour is undefined, and any number of the pages may be counted.
MincoreResults(v, l, first, resident) ==
    IF CeilDiv(l, pagesize) <= npages /\ PagesIn(l, pagesize) <= npages
    THEN {CountLoop(MincoreVec(v, l, first, resident), PagesIn(l, pagesize))}
    ELSE {[delta |-> d, vec |-> ZeroVec(npages)] :
              d \in 0..(IF PagesIn(l, pagesize) > 0 THEN PagesIn(l, pagesize) ELSE 0)}

\* fincore_fd: rc = do_mincore(...); if (rc) break
Mincore ==
    /\ pc = "mincore"
    /\ calls' = calls + 1
    /\ \/ \E e \in MincoreErrnos :
            /\ rc' = -e
            /\ FdReturn(-e)
            /\ outcome' = [outcome EXCEPT ![optind] = "mincore_failed"]
            /\ UNCHANGED <<count_incore, vec, wins>>
       \/ \E r \in MincoreResults(vec, len, file_offset \div pagesize, cache) :
            /\ count_incore' = count_incore + r.delta
            /\ vec' = r.vec
            /\ wins' = Append(wins, [off |-> file_offset, len |-> len,
                                     n   |-> PagesIn(len, pagesize),
                                     inc |-> r.delta,
                                     cnt |-> count_incore + r.delta])
            /\ rc' = 0
            /\ pc' = "munmap"
            /\ UNCHANGED <<name_rc, outcome>>
    /\ UNCHANGED <<mainVars, optind, main_rc, st_size, sb_set, fds, window_size,
                   file_offset, len, warned_once, mapped, cache, stable, warns,
                   out, nlines>>

\* fincore_fd: munmap(window, len); file_offset += window_size
Munmap ==
    /\ pc = "munmap"
    /\ mapped' = mapped \ {Window}
    /\ file_offset' = NextOffset(file_offset, window_size)
    /\ pc' = "for"
    /\ UNCHANGED <<mainVars, optind, main_rc, st_size, sb_set, count_incore,
                   name_rc, fds, window_size, len, rc, warned_once, vec, cache,
                   stable, wins, warns, calls, outcome, out, nlines>>

(* --------------------------- the page cache ---------------------------- *)
\* another process brings a page of the file in, or the kernel evicts one
CacheChange ==
    /\ pc \in {"for", "mincore", "munmap"}
    /\ \E p \in PagesOf(st_size, pagesize) :
           cache' = IF p \in cache THEN cache \ {p} ELSE cache \cup {p}
    /\ stable' = FALSE
    /\ UNCHANGED <<mainVars, optind, pc, main_rc, st_size, sb_set, count_incore,
                   name_rc, fds, fdLocals, vec, mapped, wins, warns, calls,
                   outcome, out, nlines>>

Next ==
    \/ MainLoop
    \/ Open
    \/ Fstat
    \/ For
    \/ Mincore
    \/ Munmap
    \/ Close
    \/ Report
    \/ CacheChange

Spec == Init /\ [][Next]_vars

(* ------------------------------ properties ----------------------------- *)
\* a file is being processed: optind names it
InFile == pc \notin {"main", "exit"}
\* the iteration of file optind - 1 has just ended and out is its line
Reported == pc = "main" /\ optind > 1
\* fincore_fd has just returned to fincore_name with the scan complete
ScanDone == pc = "close" /\ outcome[optind] = "ok"
\* the windows of the current file that are mapped
MappedHere == {w \in mapped : w.file = optind}
\* the number of pages of the current file
NumPages == CeilDiv(st_size, pagesize)
\* the resident pages of the current file
ResidentPages == cache \cap PagesOf(st_size, pagesize)
\* the window capacity in bytes
Capacity == npages * pagesize
Min(a, b) == IF a < b THEN a ELSE b
Failures == {"open_failed", "fstat_failed", "mmap_failed", "mincore_failed"}

\* the sum of the per-window counts
RECURSIVE SumInc(_)
SumInc(seq) == IF seq = <<>> THEN 0 ELSE Head(seq).inc + SumInc(Tail(seq))
\* the number of flags examined over all windows
RECURSIVE SumExamined(_)
SumExamined(seq) == IF seq = <<>> THEN 0 ELSE Head(seq).n + SumExamined(Tail(seq))

\* C1: the exit status is success only if every file of the batch was opened,
\* stat'ed and scanned successfully, and a file whose open, fstat, mmap or
\* mincore fails is reported with the failure marker ("failed", -1), never
\* with a count line.
C1_ExitStatusReflectsFailures ==
    /\ (pc = "exit" /\ main_rc = EXIT_SUCCESS)
           => \A i \in 1..argc : outcome[i] \notin Failures
    /\ (Reported /\ outcome[optind - 1] \in Failures)
           => out = FailureLine(optind - 1)

\* C2: whenever fincore_fd has returned, with any outcome, no window that the
\* call mapped is still mapped.
C2_NoWindowMappedOnReturn ==
    pc \in {"close", "report"} => MappedHere = {}

\* C3: at every point of a run at most one window is mapped, over all the
\* files of the batch.
C3_AtMostOneWindowMapped ==
    Cardinality(mapped) <= 1

\* C4: when the cache does not change during the scan and nothing fails, the
\* count fincore_fd produces is the number of resident pages among the
\* ceil(file_size / page_size) pages of the file, for every window capacity;
\* it is the sum of the per-window counts, every window examines exactly
\* ceil(len / page_size) flags, and together the windows examine every page
\* of the file once.
C4_CountIsResidentPages ==
    (ScanDone /\ stable) =>
        /\ count_incore = Cardinality(ResidentPages)
        /\ count_incore = SumInc(wins)
        /\ \A i \in 1..Len(wins) : wins[i].n = CeilDiv(wins[i].len, pagesize)
        /\ SumExamined(wins) = NumPages

C4_Witness ==
    /\ ScanDone /\ stable
    /\ Len(wins) >= 2
    /\ st_size % pagesize # 0
    /\ wins[Len(wins)].inc = 1
    /\ count_incore >= 2
    /\ count_incore < NumPages

\* C5: whenever a scan completes with success the count is between 0 and
\* ceil(file_size / page_size), also when the cache changes between the
\* queries of successive windows; and the running count never decreases from
\* one window to the next.
C5_CountWithinPages ==
    /\ ScanDone => (0 <= count_incore /\ count_incore <= NumPages)
    /\ (InFile /\ wins # <<>>) => count_incore = wins[Len(wins)].cnt
    /\ \A i \in 1..Len(wins) :
           wins[i].cnt >= (IF i = 1 THEN 0 ELSE wins[i - 1].cnt)

C5_Witness ==
    /\ ScanDone /\ ~stable
    /\ Len(wins) >= 2
    /\ wins[1].cnt >= 1
    /\ count_incore > wins[1].cnt
    /\ count_incore # Cardinality(ResidentPages)

\* C6: a failed mmap ends the scan of that file only: no further mmap or
\* mincore is made for the file, the failure is warned about exactly once,
\* fincore_fd returns nonzero and the file is reported as failed; every file
\* of the batch is still processed and reported, and a file that scans well
\* gets its count line whatever happened to the files before it.
C6_MmapFailureIsFileScoped ==
    /\ warns <= 1
    /\ (InFile /\ outcome[optind] = "mmap_failed") =>
           /\ pc \in {"close", "report"}
           /\ name_rc # 0
           /\ warns = 1
           /\ calls = 2 * Len(wins) + 1
    /\ (Reported /\ outcome[optind - 1] = "mmap_failed") =>
           out = FailureLine(optind - 1)
    /\ (Reported /\ outcome[optind - 1] = "ok") =>
           (out.kind = "count" /\ out.name = optind - 1)
    /\ pc = "main" => nlines = optind - 1
    /\ pc = "exit" => (nlines = argc /\ \A i \in 1..argc : outcome[i] # "none")

C6_Witness ==
    /\ Reported
    /\ optind = 3
    /\ outcome[1] = "mmap_failed"
    /\ outcome[2] = "ok"
    /\ out.kind = "count"
    /\ out.c1 >= 1
    /\ main_rc = EXIT_FAILURE

\* C7: a file of size 0 whose open and fstat succeed yields count 0 with
\* success: no window is mapped and no query is made, the file is reported
\* with the count line of 0 pages and size 0, and the exit status becomes
\* failure only through a file whose fincore_name returned nonzero.
C7_EmptyFileIsSuccess ==
    /\ (InFile /\ outcome[optind] = "empty") =>
           /\ name_rc = 0
           /\ count_incore = 0
           /\ calls = 0
           /\ MappedHere = {}
    /\ (Reported /\ outcome[optind - 1] = "empty") =>
           out = CountLine(optind - 1, 0, 0)
    /\ main_rc = EXIT_FAILURE =>
           \E i \in 1..argc :
               outcome[i] \in {"fstat_failed", "mmap_failed", "mincore_failed"}

C7_Witness ==
    /\ pc = "exit"
    /\ argc = 2
    /\ outcome[1] = "empty"
    /\ outcome[2] = "empty"
    /\ main_rc = EXIT_SUCCESS
    /\ out = CountLine(2, 0, 0)

\* C8: a scan of a file of S > 0 bytes without failure maps exactly
\* ceil(S / W) windows, W the window capacity in bytes, with one mmap and one
\* mincore each: the i-th window starts at i * W and has length
\* min(W, S - i * W), in increasing offset order; a window is mapped only
\* while no other window of the file is; and the loop never makes more than
\* ceil(S / W) iterations.
C8_WindowsPartitionFile ==
    /\ ScanDone =>
           /\ Len(wins) = CeilDiv(st_size, Capacity)
           /\ calls = 2 * Len(wins)
           /\ \A i \in 1..Len(wins) :
                  /\ wins[i].off = (i - 1) * Capacity
                  /\ wins[i].len = Min(Capacity, st_size - (i - 1) * Capacity)
    /\ pc \in {"for", "close", "report"} => MappedHere \subseteq {Window}
                                            /\ (pc = "for" => MappedHere = {})
    /\ pc \in {"mincore", "munmap"} => MappedHere = {Window}
    /\ pc \in {"for", "mincore", "munmap"} =>
           calls <= 2 * CeilDiv(st_size, Capacity)

C8_Witness ==
    /\ ScanDone
    /\ Len(wins) = 3
    /\ wins[3].len < Capacity
    /\ wins[3].off = 2 * Capacity
    /\ st_size = 2 * Capacity + wins[3].len

\* C9: for every page size, the window size fincore_fd uses is exactly
\* N_PAGES_IN_WINDOW * page_size, every window is at most that long, and the
\* number of flags written and examined per window never exceeds the
\* N_PAGES_IN_WINDOW entries of vec.
C9_WindowFitsVec ==
    /\ pc \in {"for", "mincore", "munmap"} => window_size = npages * pagesize
    /\ pc \in {"mincore", "munmap"} =>
           /\ len <= npages * pagesize
           /\ CeilDiv(len, pagesize) <= npages

\* C10: whenever fincore_name has returned, on every path, the descriptor it
\* opened is closed: at most one descriptor is open at any time and none
\* between files.
C10_DescriptorClosedOnReturn ==
    /\ Cardinality(fds) <= 1
    /\ pc \in {"report", "main", "exit"} => fds = {}
====
